---------------------------- MODULE Spec2Model ----------------------------
(***************************************************************************)
(* Model of src/src/App.jsx: the two WavePattern components.               *)
(*                                                                         *)
(*   "observer" : lines 13-180.  A ResizeObserver feeds a `dimensions`     *)
(*                React state; an effect keyed on it sets up the loop.     *)
(*   "debounce" : lines 219-390. One effect sets up the loop on mount and  *)
(*                again from a debounced window resize listener.           *)
(*                                                                         *)
(* Lengths are whole pixels.  The animation clock is counted in tenths     *)
(* (0.1 is 1, 0.2 is 2).  Source coordinates are counted in tenths of a    *)
(* cell, because one branch of the code does not round them.               *)
(***************************************************************************)
EXTENDS Integers, Sequences, FiniteSets

\* ------------------------------------------------------------------ bounds
MaxCols == 2        \* widest surface of the lifecycle model, in columns
MaxRows == 1        \* tallest surface of the lifecycle model, in rows
MaxClock == 4       \* ticks are modelled while the clock is below this (tenths)
FieldWidthSteps == 4    \* field model: widths up to this many steps of 36 px (5 columns)
FieldHeightSteps == 2   \* field model: heights up to this many steps of 60 px (5 rows)
AmpScale == 64      \* field model: amplitudes are whole multiples of 1/AmpScale
AmpFine == 10       \* field model: the multiples -AmpFine..AmpFine, and the extremes

\* ------------------------------------------------------- program constants
MobileBreakpoint == 768     \* window.innerWidth <= 768
RowPitch == 12              \* dimensions.height / 12
ColPitchTenths == 72        \* dimensions.width / 7.2

Null == 0                   \* null: requestAnimationFrame ids are positive

Variants == {"observer", "debounce"}

\* Pixel sizes the element takes: 0 in either direction (not laid out,
\* collapsed), whole numbers of characters, and two sizes with room for less
\* than one character: too narrow (0 columns, 1 row) and too low (1 column,
\* 0 rows).
Widths == {0} \cup {8 * c : c \in 1..MaxCols}
Heights == {0} \cup {RowPitch * r : r \in 1..MaxRows}
SubCharacterSizes == {[w |-> 5, h |-> RowPitch], [w |-> 8, h |-> 7]}
Sizes == [w : Widths, h : Heights] \cup SubCharacterSizes
WindowWidths == {MobileBreakpoint, MobileBreakpoint + 1}

\* --------------------------------------------------------------- Grid Sizer
\* Math.floor(width / 7.2)
Cols(w) == (10 * w) \div ColPitchTenths
\* Math.floor(height / 12)
Rows(h) == h \div RowPitch

\* window.innerWidth <= 768 (observer variant): "vertical" is the mobile,
\* top-to-bottom flow
IsMobileLayout(innerWidth) == innerWidth <= MobileBreakpoint
\* clientHeight > clientWidth (debounce variant)
IsVerticalLayout(w, h) == h > w

LayoutName(vertical) == IF vertical THEN "vertical" ELSE "horizontal"

\* The clock increment of a rendered frame, in tenths: time += 0.1 / time += 0.2
ClockStep(v) == IF v = "observer" THEN 1 ELSE 2

VARIABLES
    variant,            \* which of the two components this is
    phase,              \* "created", "mounted", "detached" (removed, cleanups not yet run), "unmounted"
    elem,               \* the <pre> element's content box, [w, h] in pixels
    containerRef,       \* animationContainerRef.current is not null
    dimensions,         \* observer: the `dimensions` state
    observing,          \* observer: the ResizeObserver is connected
    reported,           \* observer: the content box the ResizeObserver delivered last
    effectPending,      \* observer: `dimensions` was set and the animation effect has not re-run yet
    listening,          \* debounce: the window resize listener is attached
    timerPending,       \* debounce: the debounce timeout is armed
    animationFrameId,   \* the stored frame id (closure variable / ref), Null when null
    pending,            \* the frame callbacks requested and not yet run or cancelled
    geom,               \* the pixel size the latest run of the animation setup read
    surface,            \* the element's children: how many <span> and how many <br>
    frameTime,          \* history: the value of `time` the frame on the surface was rendered with, -1 when none
    cancelled,          \* history: how many requests the latest setup or cleanup cancelled
    lateSetup,          \* history: the debounced handler has run after the cleanups
    lateWrite           \* history: a frame callback has rendered into the removed element

VARIABLES
    input,              \* field model: the inputs of one setup, [variant, w, h, innerWidth]
    config,             \* field model: the config object setup built from them
    cell                \* field model: the cell animate() rendered last

fieldVars == <<input, config, cell>>

lifecycleVars == <<variant, phase, elem, containerRef, dimensions, observing, reported,
                   effectPending, listening, timerPending, animationFrameId, pending, geom,
                   surface, frameTime, cancelled, lateSetup, lateWrite>>

\* innerHTML = '': the element has no children
EmptySurface == [spans |-> 0, brs |-> 0]

\* A requested frame callback: the id requestAnimationFrame returned and the
\* closure of animate (config.cols, config.rows, the layout flag, time).
Callback(id, layout, cols, rows, time) ==
    [id |-> id, layout |-> layout, cols |-> cols, rows |-> rows, time |-> time]

\* requestAnimationFrame returns an id no live request and no stored id uses.
FreshId(pend, stored) ==
    CHOOSE i \in 1..(Cardinality(pend) + 2) :
        /\ i \notin {cb.id : cb \in pend} \cup {stored}
        /\ \A j \in 1..(i - 1) : j \in {cb.id : cb \in pend} \cup {stored}

\* if (animationFrameId) cancelAnimationFrame(animationFrameId)
CancelFrame(pend, id) == IF id # Null THEN {cb \in pend : cb.id # id} ELSE pend

\* The frame animate() writes: config.rows lines, each of config.cols spans
\* followed by one <br>.
FrameOf(cols, rows) == [spans |-> rows * cols, brs |-> rows]

\* A clock advanced by 0.1 in both variants.
AdvanceClockByTenth(v, t) == t + 1

\* time += 0.1 / time += 0.2
AdvanceClock(v, t) == t + ClockStep(v)

\* A cleanup that forgets to cancel the stored frame id.
EffectCleanupForgets(pend, id) == pend

\* The cleanup the effect returns: cancel the stored frame id, if any.
EffectCleanup(pend, id) == CancelFrame(pend, id)

\* A setup that rebuilds without cancelling the frame requested before.
SetupCancelSkipped(pend, id) == pend

\* The head of setupAndRunAnimation: cancel the stored frame id, if any.
SetupCancel(pend, id) == CancelFrame(pend, id)

\* A guard that never finds the container missing.
ContainerNeverMissing(ref) == FALSE

\* if (!animationContainer) return;
ContainerMissing(ref) == ~ref

\* A guard that returns only when both dimensions are 0.
DimensionsBothZero(ref, dims) == ContainerMissing(ref) \/ (dims.w = 0 /\ dims.h = 0)

\* if (!animationContainer || dimensions.width === 0 || dimensions.height === 0) return;
DimensionsMissing(ref, dims) == ContainerMissing(ref) \/ dims.w = 0 \/ dims.h = 0

\* An observer that is never disconnected.
ObserverNeverDisconnected(connected, box, lastReported) == box # lastReported

\* The ResizeObserver delivers to its callback while connected, when the
\* content box differs from the size it reported last.
ObserverDelivers(connected, box, lastReported) == connected /\ box # lastReported

\* An animate() that requests the next frame only while the grid has cells.
RescheduleIfCells(rest, stored, cb, v) ==
    IF cb.cols * cb.rows = 0
    THEN rest
    ELSE rest \cup {Callback(FreshId(rest, stored), cb.layout, cb.cols, cb.rows,
                             AdvanceClock(v, cb.time))}

\* animationFrameId = requestAnimationFrame(animate), after time was advanced:
\* the requests left plus one for the same closure.
Reschedule(rest, stored, cb, v) ==
    rest \cup {Callback(FreshId(rest, stored), cb.layout, cb.cols, cb.rows,
                        AdvanceClock(v, cb.time))}

\* The body of setupAndRunAnimation after its guards: clear the element, build
\* config, wall and distances for the size read, set time = 0 and call
\* animate() once, which renders the first frame, advances the clock and
\* requests the next frame.
StartLoop(v, vertical, w, h, pend) ==
    LET cols == Cols(w)
        rows == Rows(h)
        first == Callback(Null, LayoutName(vertical), cols, rows, 0)
        next == Reschedule(pend, Null, first, v)
    IN  /\ geom' = [w |-> w, h |-> h]
        /\ surface' = FrameOf(cols, rows)
        /\ frameTime' = 0
        /\ pending' = next
        /\ animationFrameId' = FreshId(pend, Null)


\* ------------------------------------------------------------- Field Model
NoInput == [variant |-> "none", w |-> 0, h |-> 0, innerWidth |-> 0]
NoConfig == [variant |-> "none"]
NoCell == [kind |-> "none"]

\* asciiChars
AsciiChars == <<" ", ".", "=", "+", "*", "#", "%", "@", "Y", "R", "A", "N", "E", "M", "U", "L">>

\* The wall glyphs U+2501 and U+2503, written in ASCII here.
HorizontalBar == "HBAR"
VerticalBar == "VBAR"

Abs(n) == IF n < 0 THEN -n ELSE n
Min(a, b) == IF a < b THEN a ELSE b
Max(a, b) == IF a > b THEN a ELSE b

\* config.slitPosition of each branch:
\* floor(rows / 3), floor(cols / 4), floor(rows / 2), floor(cols / 1.5)
SlitPosition(v, vertical, cols, rows) ==
    IF v = "observer"
    THEN IF vertical THEN rows \div 3 ELSE cols \div 4
    ELSE IF vertical THEN rows \div 2 ELSE (2 * cols) \div 3

\* One source, its coordinates in tenths of a cell.
Slit(x10, y10) == [x |-> x10, y |-> y10]

\* config.slits of each branch, slitSeparation being 0.3 * cols or 0.3 * rows.
\* The mobile branch of the observer variant does not round x:
\*   x: centerCol - slitSeparation, centerCol, centerCol + slitSeparation
\* The other three branches round:
\*   Math.floor(n / 2 - slitSeparation), Math.floor(n / 2), Math.floor(n / 2 + slitSeparation)
Slits(v, vertical, cols, rows) ==
    LET pos == 10 * SlitPosition(v, vertical, cols, rows)
        lo(n) == 10 * ((5 * n - 3 * n) \div 10)
        mid(n) == 10 * (n \div 2)
        hi(n) == 10 * ((5 * n + 3 * n) \div 10)
        centerCol == cols \div 2
    IN  IF vertical
        THEN IF v = "observer"
             THEN << Slit(10 * centerCol - 3 * cols, pos),
                     Slit(10 * centerCol, pos),
                     Slit(10 * centerCol + 3 * cols, pos) >>
             ELSE << Slit(lo(cols), pos), Slit(mid(cols), pos), Slit(hi(cols), pos) >>
        ELSE << Slit(pos, lo(rows)), Slit(pos, mid(rows)), Slit(pos, hi(rows)) >>

\* The config object and the layout flag setupAndRunAnimation builds.
MakeConfig(v, vertical, w, h) ==
    [variant |-> v,
     vertical |-> vertical,
     cols |-> Cols(w),
     rows |-> Rows(h),
     slitPosition |-> SlitPosition(v, vertical, Cols(w), Rows(h)),
     slits |-> Slits(v, vertical, Cols(w), Rows(h))]

\* createWall's isWallPoint, isSlit and isSourceSide
IsWallPoint(cfg, r, c) ==
    IF cfg.vertical THEN r = cfg.slitPosition ELSE c = cfg.slitPosition
IsSlit(cfg, r, c) ==
    \E i \in 1..Len(cfg.slits) :
        IF cfg.vertical
        THEN Abs(10 * c - cfg.slits[i].x) < 40
        ELSE Abs(10 * r - cfg.slits[i].y) < 20
IsSourceSide(cfg, r, c) ==
    IF cfg.vertical THEN r < cfg.slitPosition ELSE c < cfg.slitPosition

\* wall[r][c] as createWall fills it: an entry on the barrier line and on the
\* source side, null elsewhere.
WallEntry(cfg, r, c) ==
    IF IsWallPoint(cfg, r, c)
    THEN [kind |-> "wall",
          char |-> IF IsSlit(cfg, r, c) THEN " "
                   ELSE IF cfg.vertical THEN HorizontalBar ELSE VerticalBar,
          color |-> "#fdf6e3"]
    ELSE IF IsSourceSide(cfg, r, c)
         THEN [kind |-> "wall", char |-> " ", color |-> "undefined"]
         ELSE NoCell

\* The gain of Math.min(1, Math.max(0, 50 * intensity)) / (..., 40 * intensity)
Gain(v) == IF v = "observer" THEN 50 ELSE 40

\* clampedIntensity for totalAmplitude = amp / AmpScale, as a numerator over
\* AmpScale * AmpScale
ClampedIntensity(v, amp) == Min(AmpScale * AmpScale, Max(0, Gain(v) * (amp * amp)))

\* An index scaled by the palette's length instead of its last index.
CharIndexByLength(clamped) == (clamped * Len(AsciiChars)) \div (AmpScale * AmpScale)

\* Math.floor(clampedIntensity * (asciiChars.length - 1))
CharIndex(clamped) == (clamped * (Len(AsciiChars) - 1)) \div (AmpScale * AmpScale)

\* asciiChars[charIndex]: undefined outside the palette
CharAt(charIndex) ==
    IF charIndex + 1 \in DOMAIN AsciiChars THEN AsciiChars[charIndex + 1] ELSE "undefined"

\* totalAmplitude > 0 ? 180 : 30   /   totalAmplitude > 0 ? 40 : 0
Hue(v, amp) ==
    IF v = "observer"
    THEN IF amp > 0 THEN "hsl(180)" ELSE "hsl(30)"
    ELSE IF amp > 0 THEN "hsl(40)" ELSE "hsl(0)"

\* The cell animate() computes from the wave field when wall[r][c] is null.
FieldCell(v, amp) ==
    LET clampedIntensity == ClampedIntensity(v, amp)
        charIndex == CharIndex(clampedIntensity)
    IN  [kind |-> "field",
         char |-> CharAt(charIndex),
         color |-> Hue(v, amp),
         clamped |-> clampedIntensity,
         index |-> charIndex]

\* An animate() that samples the wave field on every cell but the barrier's
\* solid ones.
RenderedCellFieldInGaps(cfg, r, c, amp) ==
    IF IsWallPoint(cfg, r, c) /\ ~IsSlit(cfg, r, c)
    THEN [kind |-> "wall", char |-> WallEntry(cfg, r, c).char,
          color |-> WallEntry(cfg, r, c).color, clamped |-> -1, index |-> -1]
    ELSE FieldCell(cfg.variant, amp)

\* The body of animate()'s inner loop: the wall entry when there is one, the
\* field cell otherwise.
RenderedCell(cfg, r, c, amp) ==
    LET entry == WallEntry(cfg, r, c)
    IN  IF entry # NoCell
        THEN [kind |-> "wall", char |-> entry.char, color |-> entry.color,
              clamped |-> -1, index |-> -1]
        ELSE FieldCell(cfg.variant, amp)

\* The sum of the three sin(phase) / max(1, d * attenuation) terms is a real
\* number in [-3, 3] that depends on r, c and time.  The model takes it as any
\* of these multiples of 1/AmpScale: a fine range around 0, where the glyph
\* index moves, and the two extremes.
Amplitudes == (-AmpFine..AmpFine) \cup {-3 * AmpScale, 3 * AmpScale}

\* The surfaces of the field model.
FieldWidths == {0, 5, 8} \cup {36 * k : k \in 1..FieldWidthSteps}
FieldHeights == {0, 7, 12} \cup {60 * k : k \in 1..FieldHeightSteps}

\* ------------------------------------------------------------------ actions
Init ==
    /\ variant \in Variants
    /\ phase = "created"
    /\ elem \in Sizes
    /\ containerRef = FALSE
    /\ dimensions = [w |-> 0, h |-> 0]
    /\ observing = FALSE
    /\ reported = [w |-> 0, h |-> 0]
    /\ effectPending = FALSE
    /\ listening = FALSE
    /\ timerPending = FALSE
    /\ animationFrameId = Null
    /\ pending = {}
    /\ geom = [w |-> 0, h |-> 0]
    /\ surface = EmptySurface
    /\ frameTime = -1
    /\ cancelled = 0
    /\ lateSetup = FALSE
    /\ lateWrite = FALSE
    /\ input = NoInput
    /\ config = NoConfig
    /\ cell = NoCell

\* First render and both effects of the observer variant: the observer is
\* connected, and the animation effect returns at its guard because
\* dimensions is {0, 0}.
MountObserver ==
    /\ variant = "observer" /\ phase = "created"
    /\ phase' = "mounted"
    /\ containerRef' = TRUE
    /\ observing' = TRUE
    /\ UNCHANGED <<variant, elem, dimensions, reported, effectPending, listening,
                   timerPending, animationFrameId, pending, geom, surface, frameTime,
                   cancelled, lateSetup, lateWrite>>
    /\ UNCHANGED fieldVars

\* First render and the effect of the debounce variant: setupAndRunAnimation()
\* on the element's client size, then the resize listener is attached.
MountDebounce ==
    /\ variant = "debounce" /\ phase = "created"
    /\ phase' = "mounted"
    /\ containerRef' = TRUE
    /\ listening' = TRUE
    /\ StartLoop(variant, IsVerticalLayout(elem.w, elem.h), elem.w, elem.h,
                 SetupCancel(pending, animationFrameId))
    /\ cancelled' = Cardinality(pending) - Cardinality(SetupCancel(pending, animationFrameId))
    /\ UNCHANGED <<variant, elem, dimensions, observing, reported, effectPending,
                   timerPending, lateSetup, lateWrite>>
    /\ UNCHANGED fieldVars

\* The layout engine gives the mounted element another content box.
ElemResize ==
    /\ phase = "mounted"
    /\ \E s \in Sizes : s # elem /\ elem' = s
    /\ UNCHANGED <<variant, phase, containerRef, dimensions, observing, reported,
                   effectPending, listening, timerPending, animationFrameId, pending, geom,
                   surface, frameTime, cancelled, lateSetup, lateWrite>>
    /\ UNCHANGED fieldVars

\* The ResizeObserver callback: delivered when the content box differs from
\* the size last reported (0 x 0 when observation starts), and it calls
\* setDimensions with that box.  While the component is mounted the state is
\* set and the animation effect is due to re-run; for a component that has
\* been removed React drops the update.  A removed element has the box 0 x 0,
\* and the observer stays connected until the cleanup runs.
ObserverNotify ==
    /\ ObserverDelivers(observing, elem, reported)
    /\ reported' = elem
    /\ IF phase = "mounted"
       THEN dimensions' = elem /\ effectPending' = TRUE
       ELSE UNCHANGED <<dimensions, effectPending>>
    /\ UNCHANGED <<variant, phase, elem, containerRef, observing, listening, timerPending,
                   animationFrameId, pending, geom, surface, frameTime, cancelled,
                   lateSetup, lateWrite>>
    /\ UNCHANGED fieldVars

\* The animation effect re-runs for the new `dimensions`: the previous run's
\* cleanup, then the effect body.
RunEffect ==
    /\ variant = "observer" /\ phase = "mounted" /\ effectPending
    /\ effectPending' = FALSE
    /\ LET cleaned == EffectCleanup(pending, animationFrameId) IN
        /\ cancelled' = Cardinality(pending) - Cardinality(cleaned)
        /\ IF DimensionsMissing(containerRef, dimensions)
           THEN /\ pending' = cleaned
                /\ animationFrameId' = Null
                /\ geom' = dimensions
                /\ UNCHANGED <<surface, frameTime>>
           ELSE \E innerWidth \in WindowWidths :
                   StartLoop(variant, IsMobileLayout(innerWidth), dimensions.w,
                             dimensions.h, SetupCancel(cleaned, Null))
    /\ UNCHANGED <<variant, phase, elem, containerRef, dimensions, observing, reported,
                   listening, timerPending, lateSetup, lateWrite>>
    /\ UNCHANGED fieldVars

\* A window resize event while the listener is attached: the debounced
\* handler re-arms its timeout.  The layout may change the element while it
\* is in the document; a removed element has no layout.
WindowResize ==
    /\ variant = "debounce" /\ listening
    /\ IF phase = "mounted" THEN \E s \in Sizes : elem' = s ELSE elem' = elem
    /\ timerPending' = TRUE
    /\ UNCHANGED <<variant, phase, containerRef, dimensions, observing, reported,
                   effectPending, listening, animationFrameId, pending, geom, surface,
                   frameTime, cancelled, lateSetup, lateWrite>>
    /\ UNCHANGED fieldVars

\* The debounce timeout fires: later() calls setupAndRunAnimation().
TimerFire ==
    /\ timerPending
    /\ timerPending' = FALSE
    /\ LET cleaned == SetupCancel(pending, animationFrameId) IN
        /\ cancelled' = Cardinality(pending) - Cardinality(cleaned)
        /\ IF ContainerMissing(containerRef)
           THEN /\ pending' = cleaned
                /\ animationFrameId' = Null
                /\ UNCHANGED <<geom, surface, frameTime>>
           ELSE StartLoop(variant, IsVerticalLayout(elem.w, elem.h), elem.w, elem.h,
                          cleaned)
    /\ lateSetup' = (lateSetup \/ phase = "unmounted")
    /\ UNCHANGED <<variant, phase, elem, containerRef, dimensions, observing, reported,
                   effectPending, listening, lateWrite>>
    /\ UNCHANGED fieldVars

\* The browser runs a requested frame callback: animate() renders the whole
\* grid of its closure, replaces the element's children, advances the clock
\* and requests the next frame.  The element it writes is the one its closure
\* holds (if (animationContainer) tests that constant, not the ref), so a
\* callback that runs after the element was removed still renders into it.
Tick ==
    \E cb \in pending :
        /\ cb.time < MaxClock
        /\ surface' = FrameOf(cb.cols, cb.rows)
        /\ frameTime' = cb.time
        /\ pending' = Reschedule(pending \ {cb}, animationFrameId, cb, variant)
        /\ animationFrameId' = FreshId(pending \ {cb}, animationFrameId)
        /\ lateWrite' = (lateWrite \/ phase # "mounted")
        /\ UNCHANGED <<variant, phase, elem, containerRef, dimensions, observing, reported,
                       effectPending, listening, timerPending, geom, cancelled, lateSetup>>
        /\ UNCHANGED fieldVars

\* React commits the removal of the component: the element is taken out of
\* the document (it has no layout box any more) and the ref is cleared.  A
\* re-render that was due is dropped.  The effects' cleanups run in a later
\* task: until then the frame callback, the observer and the resize listener
\* are still live.
UnmountCommit ==
    /\ phase = "mounted"
    /\ phase' = "detached"
    /\ elem' = [w |-> 0, h |-> 0]
    /\ containerRef' = FALSE
    /\ effectPending' = FALSE
    /\ UNCHANGED <<variant, dimensions, observing, reported, listening, timerPending,
                   animationFrameId, pending, geom, surface, frameTime, cancelled,
                   lateSetup, lateWrite>>
    /\ UNCHANGED fieldVars

\* The cleanups of the removed component's effects run: the observer is
\* disconnected, the resize listener removed and the stored frame id
\* cancelled.  The debounce timeout is not cleared.
UnmountCleanup ==
    /\ phase = "detached"
    /\ phase' = "unmounted"
    /\ observing' = FALSE
    /\ listening' = FALSE
    /\ pending' = EffectCleanup(pending, animationFrameId)
    /\ cancelled' = Cardinality(pending) - Cardinality(EffectCleanup(pending, animationFrameId))
    /\ UNCHANGED <<variant, elem, containerRef, dimensions, reported, effectPending,
                   timerPending, animationFrameId, geom, surface, frameTime, lateSetup,
                   lateWrite>>
    /\ UNCHANGED fieldVars

Next ==
    \/ MountObserver
    \/ MountDebounce
    \/ ElemResize
    \/ ObserverNotify
    \/ RunEffect
    \/ WindowResize
    \/ TimerFire
    \/ Tick
    \/ UnmountCommit
    \/ UnmountCleanup

vars == <<lifecycleVars, fieldVars>>

Spec == Init /\ [][Next]_vars

\* The browser runs a requested frame callback at the next frame, and React
\* runs the cleanups of a removed component's effects.
FairSpec == Spec /\ WF_vars(Tick) /\ WF_vars(UnmountCleanup)

\* ------------------------------------------------ the field model's actions
FieldInputs ==
    [variant : {"observer"}, w : FieldWidths, h : FieldHeights, innerWidth : WindowWidths]
    \cup [variant : {"debounce"}, w : FieldWidths, h : FieldHeights,
          innerWidth : {MobileBreakpoint}]

\* One setup on one surface: the lifecycle is as in Init, the inputs are drawn.
FieldInit ==
    /\ input \in FieldInputs
    /\ config = NoConfig
    /\ cell = NoCell
    /\ variant = input.variant
    /\ phase = "created"
    /\ elem = [w |-> input.w, h |-> input.h]
    /\ containerRef = FALSE
    /\ dimensions = [w |-> 0, h |-> 0]
    /\ observing = FALSE
    /\ reported = [w |-> 0, h |-> 0]
    /\ effectPending = FALSE
    /\ listening = FALSE
    /\ timerPending = FALSE
    /\ animationFrameId = Null
    /\ pending = {}
    /\ geom = [w |-> 0, h |-> 0]
    /\ surface = EmptySurface
    /\ frameTime = -1
    /\ cancelled = 0
    /\ lateSetup = FALSE
    /\ lateWrite = FALSE

\* setupAndRunAnimation builds config (and from it wall and distances).  In
\* the observer variant the effect returns before it when a dimension is 0.
BuildConfig ==
    /\ config = NoConfig
    /\ input.variant = "observer"
            => ~DimensionsMissing(TRUE, [w |-> input.w, h |-> input.h])
    /\ config' = MakeConfig(input.variant,
                            IF input.variant = "observer"
                            THEN IsMobileLayout(input.innerWidth)
                            ELSE IsVerticalLayout(input.w, input.h),
                            input.w, input.h)
    /\ UNCHANGED <<input, cell>>
    /\ UNCHANGED lifecycleVars

\* The position animate()'s loops visit after `at`: row-major, and the first
\* cell of the next frame after the last cell of this one.
NextPosition(cfg, at) ==
    IF at = NoCell \/ (at.r = cfg.rows - 1 /\ at.c = cfg.cols - 1)
    THEN [r |-> 0, c |-> 0]
    ELSE IF at.c = cfg.cols - 1
         THEN [r |-> at.r + 1, c |-> 0]
         ELSE [r |-> at.r, c |-> at.c + 1]

\* animate() renders the next cell of its row-major pass.
RenderCell ==
    /\ config # NoConfig
    /\ config.rows > 0 /\ config.cols > 0
    /\ \E amp \in Amplitudes :
          LET at == NextPosition(config, cell)
              rc == RenderedCell(config, at.r, at.c, amp)
          IN  cell' = [r |-> at.r, c |-> at.c, kind |-> rc.kind, char |-> rc.char,
                       color |-> rc.color, clamped |-> rc.clamped, index |-> rc.index]
    /\ UNCHANGED <<input, config>>
    /\ UNCHANGED lifecycleVars

FieldNext ==
    \/ BuildConfig
    \/ RenderCell

FieldSpec == FieldInit /\ [][FieldNext]_vars

\* ================================================================== claims
\* The clock of the running loop: `time` in the closure of the pending frame
\* callback, -1 when no callback is pending.
Clock == IF pending = {} THEN -1 ELSE (CHOOSE cb \in pending : TRUE).time

\* The frame of the size the latest setup read.
GeomFrame == FrameOf(Cols(geom.w), Rows(geom.h))

\* C1: in both variants, whatever mounts, resizes, ticks and unmounts have
\* happened, at most one animation-frame callback is pending: two render
\* loops never run side by side.
C1_AtMostOnePending == Cardinality(pending) <= 1

\* C1 witness: a rebuild has cancelled the tick that was pending, a new loop
\* is running and it has rendered frames of its own.
C1_Witness ==
    /\ phase = "mounted"
    /\ cancelled = 1
    /\ Cardinality(pending) = 1
    /\ frameTime > 0

\* The phases in which React has removed the component.
Removed == {"detached", "unmounted"}

C3_Original ==
    [][Tick => surface'.spans = Rows(elem.h) * Cols(elem.w)]_vars

\* C3 amended: the frame a rebuild renders and every frame rendered after it
\* have exactly the rows x columns of the size that rebuild read: the pending
\* callback's closure and the frame on the surface are those of the latest
\* rebuild, never of the geometry it replaced.
C3_Amended ==
    /\ \A cb \in pending : cb.cols = Cols(geom.w) /\ cb.rows = Rows(geom.h)
    /\ pending # {} => surface = GeomFrame

\* C3 witness: a rebuild cancelled the old loop, the element has had two
\* different sizes, and the new loop has rendered a frame after its first.
C3_Witness ==
    /\ phase = "mounted"
    /\ cancelled = 1
    /\ pending # {}
    /\ frameTime > 0
    /\ surface = GeomFrame
    /\ surface.spans > 1

\* C4 as claimed: whenever the geometry the latest rebuild read is degenerate
\* (pixel width or height 0, or 0 columns or rows), the surface shows no cell.
C4_Original ==
    (phase # "created" /\ (Cols(geom.w) = 0 \/ Rows(geom.h) = 0))
    => surface.spans = 0

\* C4 amended: a loop whose grid has 0 columns or 0 rows renders no cell in
\* any frame; and in the observer variant a width or height of 0 pixels starts
\* no loop at all, so nothing is rendered for it (the surface is left as it
\* was).
C4_Amended ==
    /\ \A cb \in pending : (cb.cols = 0 \/ cb.rows = 0) => surface.spans = 0
    /\ (variant = "observer" /\ phase = "mounted" /\ ~effectPending
            /\ (dimensions.w = 0 \/ dimensions.h = 0))
       => pending = {}

\* C4 witness: the observer variant's element shrank to width 0 while a loop
\* was running; the effect has re-run, no loop is left, and the surface still
\* holds the last frame of the previous geometry.
C4_Witness ==
    /\ variant = "observer"
    /\ phase = "mounted"
    /\ ~effectPending
    /\ dimensions.w = 0
    /\ pending = {}
    /\ cancelled = 1
    /\ surface.spans > 0

\* C6 as claimed: every dimensions update the tracker produces (every call of
\* setDimensions by the observer callback) has width > 0 and height > 0.
C6_Original ==
    [][reported' # reported => (reported'.w > 0 /\ reported'.h > 0)]_vars

\* C6 amended: the tracker forwards the observed content box unfiltered: every
\* update it produces is the element's current size, is produced while the
\* observer is connected and differs from the size reported before (so none is
\* produced for an element that has been 0 x 0 since observation began, but a
\* pair with a zero width or height is, 0 x 0 for a removed element included);
\* the `dimensions` state takes an update only while the component is mounted;
\* and after teardown the tracker produces none.
C6_Amended ==
    /\ [](phase = "unmounted" => ~observing)
    /\ [][reported' # reported => (observing /\ reported' = elem)]_vars
    /\ [][dimensions' # dimensions =>
            (phase = "mounted" /\ dimensions' = reported')]_vars

\* C6 witness: the tracker has emitted a pair with a positive width and a
\* zero height, and the state holds it.
C6_Witness ==
    /\ variant = "observer"
    /\ reported.w > 0
    /\ reported.h = 0
    /\ dimensions = reported

\* C9: a loop's first frame is rendered at clock 0; every frame a tick renders
\* is rendered at the clock the previous frame left and advances it by the
\* variant's increment (0.1 observer, 0.2 debounce); the clock never decreases
\* within a loop, and it restarts from 0 exactly in the steps that rebuild
\* (mount, effect re-run, debounced handler).
C9_ClockAdvances ==
    [][ /\ Tick =>
            /\ frameTime' = Clock
            /\ Clock' = Clock + (IF variant = "observer" THEN 1 ELSE 2)
        /\ ((MountDebounce \/ RunEffect \/ TimerFire) /\ pending' # {}) =>
            /\ frameTime' = 0
            /\ Clock' = (IF variant = "observer" THEN 1 ELSE 2)
        /\ ~(Tick \/ MountDebounce \/ RunEffect \/ TimerFire) =>
            /\ Clock' \in {Clock, -1}
            /\ frameTime' = frameTime
      ]_vars

\* C9 witness: a loop that had advanced its clock was replaced by a rebuild,
\* and the new loop has rendered its first frame at clock 0.
C9_Witness ==
    /\ phase = "mounted"
    /\ cancelled = 1
    /\ frameTime = 0
    /\ Clock = (IF variant = "observer" THEN 1 ELSE 2)

\* C10: every tick leaves exactly one frame callback requested, whatever it
\* rendered; a mounted component whose setup ran on a non-zero size always has
\* one requested; and under fair scheduling of frame callbacks the clock of a
\* running loop never stays where it is: another frame is rendered, or the
\* loop is cancelled by an unmount or replaced by a rebuild.
C10_LoopNeverStalls ==
    /\ [][Tick => Cardinality(pending') = 1]_vars
    /\ [](phase = "mounted" /\ geom.w > 0 /\ geom.h > 0 => Cardinality(pending) = 1)
    /\ \A k \in 0..(MaxClock - 1) : []<>(Clock # k)

\* C10 witness: a loop on a grid without cells has rendered frame after frame.
C10_Witness ==
    /\ phase = "mounted"
    /\ geom.w > 0 /\ geom.h > 0
    /\ surface.spans = 0
    /\ frameTime >= 2
    /\ Cardinality(pending) = 1

\* The colours animate() computes from the wave field.
WaveColors == {"hsl(180)", "hsl(30)", "hsl(40)", "hsl(0)"}

\* C5: in every frame a cell on the barrier line or on the source side of it
\* shows its wall-map glyph in its wall-map colour, never a glyph or colour
\* computed from the wave field: a blank in a gap and on the source side, the
\* bar elsewhere on the barrier.
C5_WallCellsFixed ==
    (cell # NoCell /\ (IsWallPoint(config, cell.r, cell.c)
                       \/ IsSourceSide(config, cell.r, cell.c)))
    => /\ cell.kind = "wall"
       /\ cell.color \notin WaveColors
       /\ cell.index = -1
       /\ cell.char = IF IsWallPoint(config, cell.r, cell.c) /\ ~IsSlit(config, cell.r, cell.c)
                      THEN (IF config.vertical THEN HorizontalBar ELSE VerticalBar)
                      ELSE " "

\* C5 witness: a barrier-gap cell has been rendered, on a barrier that also
\* has solid cells.
C5_Witness ==
    /\ cell # NoCell
    /\ IsWallPoint(config, cell.r, cell.c)
    /\ IsSlit(config, cell.r, cell.c)
    /\ cell.char = " "
    /\ \E r \in 0..(config.rows - 1), c \in 0..(config.cols - 1) :
          IsWallPoint(config, r, c) /\ ~IsSlit(config, r, c)

\* C7: a cell computed from the wave field has a clamped intensity in [0, 1]
\* and a glyph index in 0..15, the glyph shown is the palette's at that index,
\* and no amplitude with an intensity at least as large gets a smaller index.
C7_GlyphIndexInRangeMonotone ==
    (cell # NoCell /\ cell.kind = "field")
    => /\ cell.clamped \in 0..(AmpScale * AmpScale)
       /\ cell.index \in 0..15
       /\ cell.char = AsciiChars[cell.index + 1]
       /\ \A amp \in Amplitudes :
            LET other == FieldCell(config.variant, amp)
            IN  /\ other.clamped >= cell.clamped => other.index >= cell.index
                /\ other.clamped <= cell.clamped => other.index <= cell.index

\* C7 witness: a field cell at the intensity extreme, clamped to 1, shows the
\* last glyph of the palette.
C7_Witness ==
    /\ cell # NoCell
    /\ cell.kind = "field"
    /\ cell.clamped = AmpScale * AmpScale
    /\ cell.index = 15
    /\ cell.char = "L"

\* The coordinate of a source along the wall and across it, in tenths.
Along(cfg, i) == IF cfg.vertical THEN cfg.slits[i].x ELSE cfg.slits[i].y
Across(cfg, i) == IF cfg.vertical THEN cfg.slits[i].y ELSE cfg.slits[i].x

\* C8 as claimed: setup produces exactly three sources, each with integer
\* grid coordinates, all on the barrier line, the middle one at the centre
\* along the wall and the outer two at equal offsets on either side of it
\* (stated here for the grids that have cells).
C8_Original ==
    (config # NoConfig /\ config.cols > 0 /\ config.rows > 0)
    => /\ Len(config.slits) = 3
       /\ \A i \in 1..3 : config.slits[i].x % 10 = 0 /\ config.slits[i].y % 10 = 0
       /\ \A i \in 1..3 : Across(config, i) = 10 * config.slitPosition
       /\ Along(config, 2) = 10 * ((IF config.vertical THEN config.cols ELSE config.rows) \div 2)
       /\ Along(config, 2) - Along(config, 1) = Along(config, 3) - Along(config, 2)

=============================================================================
